---- MODULE Spec2Model ----
(***************************************************************************)
(* Model of the two command-line tools of grafana-alert-provisioner:        *)
(*   scripts/add-alert.py     (import tool)                                 *)
(*   scripts/remove-alert.py  (remove tool)                                 *)
(*                                                                         *)
(* Conventions.  A Python value that the code only ever tests for truth     *)
(* (an optional command-line string, an optional "uid"/"folderUID"/"folder" *)
(* key) is a string here, and the empty string "" stands for every falsy    *)
(* value (None, key absent, ""): the code cannot tell them apart.  The      *)
(* required keys of a rule carry no value the code reads; they are booleans *)
(* saying whether the key is present.  An HTTP response is a record with    *)
(* its status code, status 0 standing for a transport error (no response).  *)
(* response.json() of a body that is not JSON raises JSONDecodeError of      *)
(* requests, a RequestException.  An exception that nothing catches ends    *)
(* the process with a traceback and exit status 1: outcome "crash".         *)
(***************************************************************************)
EXTENDS Integers, Sequences, FiniteSets

VARIABLES
    pc,             \* position of the running tool
    exit_code,      \* process exit status, -1 while running
    requests,       \* HTTP requests issued: by the step just taken (add-alert.py),
                    \* since the start of the run (remove-alert.py)
    outcome,        \* what the step just taken printed for its file, rule or target
    \* ---- add-alert.py
    nfiles,         \* len(args.files)
    dry_run,        \* args.dry_run
    folder,         \* args.folder
    file_idx,       \* number of files the main loop has taken
    cur_file,       \* the file the loop body is working on
    alerts,         \* import_alert: alerts; find_alert_by_name: alerts
    folders,        \* extract_rules_from_export: folders (the lazily loaded mapping)
    alert_idx,      \* import_alert: position of "for alert in alerts"
    success_count,  \* import_alert: success_count
    total_success,  \* main: total_success
    total_failed,   \* main: total_failed
    errors,         \* number of error lines printed so far
    warnings,       \* number of "Warning: Folder ... not found" lines of the current file
    visited,        \* indexes of the files taken by the main loop, in order
    \* ---- remove-alert.py
    r_uid,          \* args.uid
    r_name,         \* args.name
    r_identifier,   \* args.identifier
    r_dry_run,      \* args.dry_run
    r_list,         \* args.list_alerts
    r_force,        \* args.force
    server,         \* the alert rules the server holds
    uid_to_delete,  \* main: uid_to_delete
    alert_info,     \* main: alert_info
    prompted,       \* whether input() was called
    answer          \* what input() returned

importVars == <<nfiles, dry_run, folder, file_idx, cur_file, alerts, folders, alert_idx,
                success_count, total_success, total_failed, errors, warnings,
                visited>>
removeVars == <<r_uid, r_name, r_identifier, r_dry_run, r_list, r_force, server,
                uid_to_delete, alert_info, prompted, answer>>
vars == <<pc, exit_code, requests, outcome, importVars, removeVars>>

----------------------------------------------------------------------------
(* Bounds of the model *)

MaxFiles == 2
MaxRules == 2
MaxGroups == 2
MaxServerRules == 2

----------------------------------------------------------------------------
(* Data *)

SeqUpTo(S, n) == UNION {[1..k -> S] : k \in 0..n}

RECURSIVE Concat(_)
Concat(ss) == IF ss = <<>> THEN <<>> ELSE Head(ss) \o Concat(Tail(ss))

Truthy(s) == s # ""

\* An alert rule: which required keys are present, and the optional keys.
Rule(t, c, d, u, f) ==
    [kind |-> "dict", title |-> t, condition |-> c, data |-> d, uid |-> u, folderUID |-> f,
     ruleGroup |-> ""]

NoRule == Rule(FALSE, FALSE, FALSE, "", "")

\* A JSON value that is no mapping, where the code expects an alert rule.
NonMapping(k) ==
    [kind |-> k, title |-> FALSE, condition |-> FALSE, data |-> FALSE, uid |-> "",
     folderUID |-> "", ruleGroup |-> ""]

\* A number, true, false or null: "field in data" raises TypeError.
Scalar == NonMapping("scalar")
\* A string or a list that holds none of the required field names: "field in
\* data" is False, and an item assignment raises TypeError.
Text == NonMapping("text")
\* A string or a list that holds the three required field names ("title
\* condition data"): "field in data" is True for each, and data.get raises
\* AttributeError.
Names == [NonMapping("names") EXCEPT !.title = TRUE, !.condition = TRUE, !.data = TRUE]

\* Rules a file may hold: complete ones with and without uid and folderUID, and
\* ones lacking exactly one required key.
ValidRules == {Rule(TRUE, TRUE, TRUE, "", ""), Rule(TRUE, TRUE, TRUE, "u1", ""),
               Rule(TRUE, TRUE, TRUE, "", "fOld"), Rule(TRUE, TRUE, TRUE, "u1", "fOld")}
InvalidRules == {Rule(FALSE, TRUE, TRUE, "", ""), Rule(TRUE, FALSE, TRUE, "u1", ""),
                 Rule(TRUE, TRUE, FALSE, "", "")}
Rules == ValidRules \cup InvalidRules

\* Elements of a list file.
ListRules == {Rule(TRUE, TRUE, TRUE, "", ""), Rule(TRUE, TRUE, TRUE, "u1", "fOld"),
              Rule(TRUE, FALSE, TRUE, "u1", ""), Scalar, Names}

\* Rules of an export document.
RuleA == Rule(TRUE, TRUE, TRUE, "u1", "fOld")
RuleB == Rule(TRUE, FALSE, TRUE, "", "")
RuleC == Rule(TRUE, TRUE, TRUE, "", "fOld")

\* An element of "groups": a mapping (kind "dict") that may hold name, folder
\* and rules, or another value; folderHashable is false for a folder that is a
\* non-empty list or mapping (it cannot be a dictionary key), rulesIterable for
\* rules that are null or a number.
Group(hn, n, fo, rs) ==
    [kind |-> "dict", hasName |-> hn, name |-> n, folder |-> fo, folderHashable |-> TRUE,
     rulesIterable |-> TRUE, rules |-> rs]

\* A group that is no mapping: group.get raises AttributeError.
NotAGroup == [Group(FALSE, "", "", <<>>) EXCEPT !.kind = "other"]
\* A group whose rules are null: the for statement raises TypeError, unless
\* the group is skipped for its folder before.
RulesNull == [Group(TRUE, "g4", "Prod", <<>>) EXCEPT !.rulesIterable = FALSE]
\* A group whose folder is a list: folders.get raises TypeError.
FolderList == [Group(TRUE, "g5", "x", <<RuleC>>) EXCEPT !.folderHashable = FALSE]

\* Groups of an export document: with no folder, a folder the server has and
\* one it lacks; with and without a name; with one or two rules; with a rule
\* that is no mapping; and the groups above.
Groups ==
    {Group(TRUE, "g1", "", <<RuleC, RuleB>>),
     Group(FALSE, "", "Prod", <<RuleA>>),
     Group(TRUE, "g2", "Gone", <<RuleB>>),
     Group(TRUE, "g3", "Prod", <<Scalar>>),
     NotAGroup, RulesNull, FolderList}

\* A path given on the command line: whether it exists when main tests it, what
\* open() and read() do afterwards ("ok", "notfound": FileNotFoundError, the file
\* was removed in between, "oserror": another OSError, as on a directory),
\* whether the text parses, and the parsed value: a list, a mapping that may
\* hold apiVersion, groups and rule keys, or a value that is neither ("other",
\* held in rule); groupsIterable is false for groups that are null or a number.
File(ex, op, ok, ty, items, av, hg, gs, r) ==
    [exists |-> ex, opens |-> op, json_ok |-> ok, type |-> ty, items |-> items,
     apiVersion |-> av, hasGroups |-> hg, groupsIterable |-> TRUE, groups |-> gs, rule |-> r]

NoFile == File(FALSE, "notfound", FALSE, "none", <<>>, FALSE, FALSE, <<>>, NoRule)
MissingFile == NoFile
Vanished == File(TRUE, "notfound", FALSE, "none", <<>>, FALSE, FALSE, <<>>, NoRule)
Directory == File(TRUE, "oserror", FALSE, "none", <<>>, FALSE, FALSE, <<>>, NoRule)
MalformedFile == File(TRUE, "ok", FALSE, "none", <<>>, FALSE, FALSE, <<>>, NoRule)
SingleFile(r) == File(TRUE, "ok", TRUE, "dict", <<>>, FALSE, FALSE, <<>>, r)
OtherFile(v) == File(TRUE, "ok", TRUE, "other", <<>>, FALSE, FALSE, <<>>, v)
ListFile(rs) == File(TRUE, "ok", TRUE, "list", rs, FALSE, FALSE, <<>>, NoRule)
ExportFile(gs) == File(TRUE, "ok", TRUE, "dict", <<>>, TRUE, TRUE, gs, NoRule)
\* An export whose groups are null: the for statement raises TypeError.
GroupsNull == [ExportFile(<<>>) EXCEPT !.groupsIterable = FALSE]

\* Export documents: up to MaxGroups groups, no group twice.
ExportFiles ==
    {ExportFile(gs) : gs \in {q \in SeqUpTo(Groups, MaxGroups) :
                                  \A i, j \in 1..Len(q) : q[i] = q[j] => i = j}}
    \cup {GroupsNull}

Files ==
    {MissingFile, Vanished, Directory, MalformedFile}
    \cup {SingleFile(r) : r \in Rules}
    \cup {OtherFile(v) : v \in {Scalar, Text, Names}}
    \cup {ListFile(rs) : rs \in SeqUpTo(ListRules, MaxRules)}
    \cup ExportFiles
    \* mappings with only one of apiVersion / groups
    \cup {File(TRUE, "ok", TRUE, "dict", <<>>, TRUE, FALSE, <<>>, r) : r \in {NoRule, Rule(TRUE, TRUE, TRUE, "", "")}}
    \cup {File(TRUE, "ok", TRUE, "dict", <<>>, FALSE, TRUE, <<Group(TRUE, "g1", "", <<Rule(TRUE, TRUE, TRUE, "", "")>>)>>, NoRule)}

----------------------------------------------------------------------------
(* HTTP: the responses the server may give *)

Resp(st, body) == [status |-> st, body |-> body]

\* raise_for_status(): a 4xx/5xx status raises HTTPError; status 0 (no response)
\* stands for the RequestException the call itself raised.
Raises(resp) == resp.status = 0 \/ resp.status >= 400

\* The parsed body of an answer: "rule" for a mapping (the rule object), "" for
\* null, "nojson" for a body that does not parse.
\* GET /api/v1/provisioning/alert-rules/{uid}: status 200 with the rule object,
\* status 200 with a body that is falsy once parsed (null, also {} and []; a
\* body that does not parse gives None as well), or an error.
GetRuleResponses == {Resp(200, "rule"), Resp(200, ""), Resp(404, ""), Resp(0, "")}
\* POST / PUT of a rule: status 200 with a mapping, status 200 with a body that
\* is no mapping (null, also a list, a string, a number), status 200 with a
\* body that does not parse, or an error.
WriteResponses ==
    {Resp(200, "rule"), Resp(200, ""), Resp(200, "nojson"), Resp(400, ""), Resp(0, "")}
\* GET /api/folders: a list of {title, uid}, the uid possibly falsy ("": an
\* empty string or null); malformed stands for a body that is no list of
\* mappings with title and uid (null, a mapping, a folder without uid key).
Folder(t, u) == [title |-> t, uid |-> u]
FolderResponses ==
    {[status |-> 200, folders |-> fs, malformed |-> FALSE] :
        fs \in {<<>>, <<Folder("Dev", "f3"), Folder("Prod", "f1")>>,
                <<Folder("Prod", "f1"), Folder("Prod", "f2")>>,
                <<Folder("Prod", "")>>}}
    \cup {[status |-> 200, folders |-> <<>>, malformed |-> TRUE]}
    \cup {[status |-> st, folders |-> <<>>, malformed |-> FALSE] : st \in {0, 500}}

Req(m, target, u, i, st, body) ==
    [method |-> m, target |-> target, uid |-> u, idx |-> i, status |-> st, body |-> body]

----------------------------------------------------------------------------
(* add-alert.py *)

\* The process environment after load_dotenv(): which of GRAFANA_URL,
\* GRAFANA_TOKEN, GRAFANA_USER and GRAFANA_PASSWORD are set to a non-empty value.
Env(url, token, user, password) ==
    [url |-> url, token |-> token, user |-> user, password |-> password]
Envs == {Env(a, b, c, d) : a \in BOOLEAN, b \in BOOLEAN, c \in BOOLEAN, d \in BOOLEAN}

\* load_config: TRUE when it returns the configuration, FALSE when it prints an
\* error and calls sys.exit(1).
load_config(env) == env.url /\ (env.token \/ (env.user /\ env.password))

\* get_folders, line 95, raises TypeError or KeyError, which line 96 does not
\* catch: the answer is no list of mappings with title and uid.
GetFoldersRaises(resp) == ~(resp.status = 0 \/ resp.status >= 400) /\ resp.malformed

\* get_folders, when it returns: title -> uid of the folders returned ({} when
\* the request fails); a later folder of the same title replaces an earlier one.
get_folders(resp) ==
    IF resp.status = 0 \/ resp.status >= 400 THEN << >>
    ELSE LET fs == resp.folders
             titles == {fs[i].title : i \in 1..Len(fs)}
             last(t) == CHOOSE i \in 1..Len(fs) :
                            fs[i].title = t /\ \A j \in 1..Len(fs) : fs[j].title = t => j <= i
         IN  [t \in titles |-> fs[last(t)].uid]

\* folders = None, and folders once loaded.
NoFolders == [loaded |-> FALSE, map |-> << >>]
Loaded(m) == [loaded |-> TRUE, map |-> m]

\* dict.get(key) on the folder mapping; "" for None.
FolderLookup(fmap, name) == IF name \in DOMAIN fmap THEN fmap[name] ELSE ""

is_export_format(data) == data.apiVersion /\ data.hasGroups

\* One iteration of "for group in data.get('groups', [])": the rules the group
\* contributes, whether it was skipped with a warning, whether it raised an
\* exception (AttributeError at line 111 on a group that is no mapping, the
\* exception of get_folders at line 119, TypeError at line 120 on a folder that
\* is no dictionary key, at line 125 on rules that are not iterable, at line
\* 127 on a rule that is no mapping), whether it needed the folder mapping, and
\* whether the mapping was there afterwards.  Line 121 tests the truth of the
\* uid found: a group is skipped also when its title is there with a falsy uid.
ExtractGroup(group, folder_override, folder_resp) ==
    LET isMap == group.kind = "dict"
        group_name == IF group.hasName THEN group.name ELSE "default"
        folder_name == group.folder
        lookup == isMap /\ ~Truthy(folder_override) /\ Truthy(folder_name)
        lookupRaised == lookup /\ (GetFoldersRaises(folder_resp) \/ ~group.folderHashable)
        folder_uid == IF lookup THEN FolderLookup(get_folders(folder_resp), folder_name)
                      ELSE folder_override
        skipped == lookup /\ ~lookupRaised /\ ~Truthy(folder_uid)
        inject(rule) == [rule EXCEPT !.ruleGroup = group_name,
                                     !.folderUID = IF Truthy(folder_uid) THEN folder_uid ELSE @]
    IN  [rules |-> IF skipped THEN <<>>
                   ELSE [i \in 1..Len(group.rules) |-> inject(group.rules[i])],
         skipped |-> skipped,
         raised |-> \/ ~isMap
                    \/ lookupRaised
                    \/ /\ ~skipped
                       /\ \/ ~group.rulesIterable
                          \/ \E i \in 1..Len(group.rules) : group.rules[i].kind # "dict",
         lookup |-> lookup,
         loaded |-> lookup /\ ~GetFoldersRaises(folder_resp)]

\* extract_rules_from_export: the rules collected, the number of warnings
\* printed, whether GET /api/folders was sent, and the folder mapping at the
\* end: loaded at the first group that needs it, None when no group does.  The
\* loop ends at the first group that raises, and then nothing is returned;
\* groups that are not iterable raise at line 110.
extract_rules_from_export(data, folder_override, folder_resp) ==
    LET per == [g \in 1..Len(data.groups) |->
                    ExtractGroup(data.groups[g], folder_override, folder_resp)]
        raised == \E g \in 1..Len(per) : per[g].raised
        last == IF raised THEN CHOOSE g \in 1..Len(per) :
                                   per[g].raised /\ \A h \in 1..(g - 1) : ~per[h].raised
                ELSE Len(per)
    IN  IF ~data.groupsIterable
        THEN [rules |-> <<>>, raised |-> TRUE, warned |-> 0, fetched |-> FALSE,
              folders |-> NoFolders]
        ELSE [rules |-> IF raised THEN <<>> ELSE Concat([g \in 1..Len(per) |-> per[g].rules]),
              raised |-> raised,
              warned |-> Cardinality({g \in 1..last : per[g].skipped}),
              fetched |-> \E g \in 1..last : per[g].lookup,
              folders |-> IF \E g \in 1..last : per[g].loaded
                          THEN Loaded(get_folders(folder_resp)) ELSE NoFolders]

\* validate_alert_json, line 140, raises TypeError: "field in data" on a number,
\* true, false or null.
ValidateRaises(data) == data.kind = "scalar"

\* validate_alert_json, when it returns: every required field is a key of the
\* mapping (an element of the list, a substring of the string).
validate_alert_json(data) == data.title /\ data.condition /\ data.data

\* import_alert, line 234, raises AttributeError: alert.get on a validated
\* alert that is no mapping.
AlertGetRaises(alert) == alert.kind # "dict"

\* get_existing_alert: the response body when the status is 200, else None.
get_existing_alert(resp) == IF resp.status = 200 THEN resp.body ELSE ""

\* import_alert, lines 212-222: the alerts of a parsed file before the override.
CollectAlerts(data, folder_override, folder_resp) ==
    IF data.type = "dict" /\ is_export_format(data)
    THEN extract_rules_from_export(data, folder_override, folder_resp).rules
    ELSE IF data.type = "list" THEN data.items
    ELSE <<data.rule>>

\* ApplyOverride with the bug of keeping a folderUID the alert already has.
ApplyOverrideDefault(as, folder_override) ==
    IF Truthy(folder_override)
    THEN [i \in 1..Len(as) |->
            IF Truthy(as[i].folderUID) THEN as[i] ELSE [as[i] EXCEPT !.folderUID = folder_override]]
    ELSE as

\* import_alert, line 227, raises TypeError: item assignment on an alert that is
\* no mapping.
OverrideRaises(as, folder_override) ==
    Truthy(folder_override) /\ \E i \in 1..Len(as) : as[i].kind # "dict"

\* import_alert, lines 224-227, when no assignment raises.
ApplyOverride(as, folder_override) ==
    IF Truthy(folder_override)
    THEN [i \in 1..Len(as) |-> [as[i] EXCEPT !.folderUID = folder_override]]
    ELSE as

\* MainBranch with the bug of importing in dry-run mode.
MainBranchNoDry(f, dry) ==
    IF ~f.exists THEN "missing" ELSE "import"

\* main, lines 295-323: the branch the loop body takes for a file.
MainBranch(f, dry) ==
    IF ~f.exists THEN "missing" ELSE IF dry THEN "dry" ELSE "import"

\* main, lines 301-321: how dry-run reports a file.  all(...) validates the
\* alerts in order and stops at the first that is invalid; an alert reached
\* before that on which validate_alert_json raises ends the run, as do a path
\* that open() rejects and an export on which the count of line 308 raises
\* (groups or rules that are not iterable, a group that is no mapping).
DryRunClass(f) ==
    IF f.opens # "ok" THEN "crash"
    ELSE IF ~f.json_ok THEN "dry_badjson"
    ELSE IF f.type = "dict" /\ is_export_format(f)
    THEN IF \/ ~f.groupsIterable
            \/ \E g \in 1..Len(f.groups) :
                    f.groups[g].kind # "dict" \/ ~f.groups[g].rulesIterable
         THEN "crash" ELSE "dry_export"
    ELSE LET as == IF f.type = "list" THEN f.items ELSE <<f.rule>>
             stops == {i \in 1..Len(as) : ValidateRaises(as[i]) \/ ~validate_alert_json(as[i])}
             first == CHOOSE i \in stops : \A j \in stops : i <= j
         IN  IF stops = {} THEN "dry_valid"
             ELSE IF ValidateRaises(as[first]) THEN "crash" ELSE "dry_invalid"

\* The error lines validate_alert_json prints while all(...) runs: it stops at
\* the first invalid alert.
DryRunErrors(f) ==
    IF DryRunClass(f) = "dry_invalid" THEN 1 ELSE 0

\* import_alert, lines 241 and 244, raise AttributeError, which lines 248-252 do
\* not catch: result.get on a 2xx answer whose body is no mapping.
ResultGetRaises(write_resp) == ~Raises(write_resp) /\ write_resp.body = ""

\* import_alert, lines 237-252, for one valid alert: the requests issued and
\* what is printed, given the responses to the existence check and to the write.
ImportOne(alert, i, get_resp, write_resp) ==
    LET uid == alert.uid
        checked == Truthy(uid)
        exists == checked /\ Truthy(get_existing_alert(get_resp))
        get == IF checked THEN <<Req("GET", "rule", uid, i, get_resp.status, NoRule)>> ELSE <<>>
        write == IF exists THEN Req("PUT", "rule", uid, i, write_resp.status, alert)
                 ELSE Req("POST", "rules", "", i, write_resp.status, alert)
    IN  [reqs |-> get \o <<write>>,
         outcome |-> IF write_resp.status = 0 THEN "transport_error"
                     ELSE IF Raises(write_resp) THEN "http_error"
                     ELSE IF write_resp.body = "nojson" THEN "transport_error"
                     ELSE IF ResultGetRaises(write_resp) THEN "crash"
                     ELSE IF exists THEN "updated" ELSE "created"]

\* A rule of the server, as the remove tool reads it: a mapping with its uid
\* ("" when it has none) and its title.  NoAlert stands for None and every
\* other falsy value, JunkAlert for a value that is true and no mapping (a
\* string, a number, a non-empty list).
Alert(u, t) == [kind |-> "dict", uid |-> u, title |-> t]
NoAlert == [kind |-> "none", uid |-> "", title |-> ""]
JunkAlert == [kind |-> "other", uid |-> "", title |-> ""]

\* The remove tool's variables while the import tool runs.
RemoveIdle ==
    /\ r_uid = "" /\ r_name = "" /\ r_identifier = ""
    /\ r_dry_run = FALSE /\ r_list = FALSE /\ r_force = FALSE
    /\ server = <<>> /\ uid_to_delete = "" /\ alert_info = NoAlert
    /\ prompted = FALSE /\ answer = <<>>

ImportInit ==
    /\ pc = "config" /\ exit_code = -1 /\ requests = <<>>
    /\ nfiles \in 1..MaxFiles
    /\ dry_run \in BOOLEAN
    /\ folder \in {"", "fNew"}
    /\ file_idx = 0 /\ cur_file = NoFile
    /\ alerts = <<>> /\ folders = NoFolders /\ alert_idx = 0 /\ success_count = 0
    /\ total_success = 0 /\ total_failed = 0
    /\ errors = 0 /\ warnings = 0 /\ outcome = "" /\ visited = <<>>
    /\ RemoveIdle

\* main, line 282: load_config() returns, or ends the process with status 1.
ImportLoadConfig ==
    /\ pc = "config"
    /\ \E env \in Envs :
        IF load_config(env)
        THEN pc' = "loop" /\ outcome' = "" /\ UNCHANGED <<exit_code, errors>>
        ELSE pc' = "done" /\ outcome' = "config_error" /\ exit_code' = 1 /\ errors' = errors + 1
    /\ UNCHANGED <<requests, nfiles, dry_run, folder, file_idx, cur_file, alerts, folders,
                   alert_idx, success_count, total_success, total_failed, warnings, visited,
                   removeVars>>

\* main, lines 294-298: the loop takes a file that does not exist.
MainMissing ==
    /\ pc = "loop" /\ file_idx < nfiles
    /\ \E f \in Files :
        /\ MainBranch(f, dry_run) = "missing"
        /\ cur_file' = f
    /\ file_idx' = file_idx + 1
    /\ visited' = Append(visited, file_idx + 1)
    /\ total_failed' = total_failed + 1
    /\ errors' = errors + 1
    /\ outcome' = "missing"
    /\ pc' = "next"
    /\ UNCHANGED <<exit_code, requests, nfiles, dry_run, folder, alerts, folders, alert_idx,
                   success_count, total_success, warnings, removeVars>>

\* main, lines 300-321: the loop validates a file in dry-run mode.  An
\* exception other than json.JSONDecodeError is not caught.
MainDryRun ==
    /\ pc = "loop" /\ file_idx < nfiles
    /\ \E f \in Files :
        /\ MainBranch(f, dry_run) = "dry"
        /\ cur_file' = f
        /\ outcome' = DryRunClass(f)
        /\ errors' = errors + DryRunErrors(f)
        /\ IF DryRunClass(f) = "crash"
           THEN pc' = "done" /\ exit_code' = 1 /\ UNCHANGED <<total_success, total_failed>>
           ELSE /\ pc' = "next" /\ UNCHANGED exit_code
                /\ IF DryRunClass(f) \in {"dry_export", "dry_valid"}
                   THEN total_success' = total_success + 1 /\ total_failed' = total_failed
                   ELSE total_failed' = total_failed + 1 /\ total_success' = total_success
    /\ file_idx' = file_idx + 1
    /\ visited' = Append(visited, file_idx + 1)
    /\ UNCHANGED <<requests, nfiles, dry_run, folder, alerts, folders, alert_idx,
                   success_count, warnings, removeVars>>

\* The answers GET /api/folders may get while a file is read: the request is
\* sent, once, for an export with a group that gets as far as the lookup of
\* line 119; no answer is drawn for another file.
NoAnswer == [status |-> 0, folders |-> <<>>, malformed |-> FALSE]
FoldersAsked(data, folder_override) ==
    /\ data.type = "dict" /\ is_export_format(data)
    /\ extract_rules_from_export(data, folder_override, NoAnswer).fetched
FolderAnswers(data, folder_override) ==
    IF FoldersAsked(data, folder_override) THEN FolderResponses ELSE {NoAnswer}

\* main line 323 and import_alert, lines 200-229: the loop hands a file to
\* import_alert, which reads it, collects its alerts and applies the override;
\* an early return (0, 1) is added to the totals at once (lines 324-325).  An
\* OSError of open() other than FileNotFoundError, the exceptions of
\* extract_rules_from_export and the TypeError of line 227 are not caught.
ImportOpen ==
    /\ pc = "loop" /\ file_idx < nfiles
    /\ file_idx' = file_idx + 1
    /\ visited' = Append(visited, file_idx + 1)
    /\ success_count' = 0
    /\ \E f \in Files : \E fr \in FolderAnswers(f, folder) :
        /\ MainBranch(f, dry_run) = "import"
        /\ cur_file' = f
        /\ IF f.opens = "oserror"
           THEN /\ outcome' = "crash"
                /\ pc' = "done" /\ exit_code' = 1
                /\ requests' = <<>> /\ warnings' = 0 /\ alerts' = <<>> /\ alert_idx' = 0
                /\ folders' = NoFolders
                /\ UNCHANGED <<errors, total_failed>>
           ELSE IF f.opens = "notfound" \/ ~f.json_ok
           THEN /\ outcome' = IF f.opens = "notfound" THEN "notfound" ELSE "badjson"
                /\ errors' = errors + 1
                /\ total_failed' = total_failed + 1
                /\ requests' = <<>> /\ warnings' = 0 /\ alerts' = <<>> /\ alert_idx' = 0
                /\ folders' = NoFolders
                /\ pc' = "next" /\ UNCHANGED exit_code
           ELSE LET export == f.type = "dict" /\ is_export_format(f)
                    ex == extract_rules_from_export(f, folder, fr)
                    fetched == export /\ ex.fetched
                    collected == CollectAlerts(f, folder, fr)
                IN  /\ requests' = IF fetched
                                   THEN <<Req("GET", "folders", "", 0, fr.status, NoRule)>>
                                   ELSE <<>>
                    /\ warnings' = IF export THEN ex.warned ELSE 0
                    /\ folders' = IF export THEN ex.folders ELSE NoFolders
                    /\ IF (export /\ ex.raised) \/ (~export /\ OverrideRaises(collected, folder))
                       THEN /\ outcome' = "crash"
                            /\ pc' = "done" /\ exit_code' = 1
                            /\ alerts' = <<>> /\ alert_idx' = 0
                            /\ UNCHANGED <<errors, total_failed>>
                       ELSE IF export /\ collected = <<>>
                       THEN /\ outcome' = "no_rules"
                            /\ errors' = errors + 1
                            /\ total_failed' = total_failed + 1
                            /\ alerts' = <<>> /\ alert_idx' = 0
                            /\ pc' = "next" /\ UNCHANGED exit_code
                       ELSE /\ alerts' = ApplyOverride(collected, folder)
                            /\ alert_idx' = 1
                            /\ outcome' = "collected"
                            /\ pc' = "rules"
                            /\ UNCHANGED <<exit_code, errors, total_failed>>
    /\ UNCHANGED <<nfiles, dry_run, folder, total_success, removeVars>>

\* import_alert, lines 230-252: one iteration of "for alert in alerts".  The
\* TypeError of validate_alert_json and the AttributeError of alert.get and of
\* result.get are not caught.
ImportRule ==
    /\ pc = "rules" /\ alert_idx <= Len(alerts)
    /\ LET alert == alerts[alert_idx] IN
        IF ValidateRaises(alert)
        THEN /\ outcome' = "crash"
             /\ pc' = "done" /\ exit_code' = 1
             /\ requests' = <<>>
             /\ UNCHANGED <<errors, success_count>>
        ELSE IF ~validate_alert_json(alert)
        THEN /\ outcome' = "invalid"
             /\ errors' = errors + 1
             /\ requests' = <<>>
             /\ UNCHANGED <<pc, exit_code, success_count>>
        ELSE IF AlertGetRaises(alert)
        THEN /\ outcome' = "crash"
             /\ pc' = "done" /\ exit_code' = 1
             /\ requests' = <<>>
             /\ UNCHANGED <<errors, success_count>>
        ELSE \E g \in GetRuleResponses, w \in WriteResponses :
                LET r == ImportOne(alert, alert_idx, g, w) IN
                /\ requests' = r.reqs
                /\ outcome' = r.outcome
                /\ IF r.outcome = "crash"
                   THEN /\ pc' = "done" /\ exit_code' = 1
                        /\ UNCHANGED <<errors, success_count>>
                   ELSE /\ UNCHANGED <<pc, exit_code>>
                        /\ IF r.outcome \in {"created", "updated"}
                           THEN success_count' = success_count + 1 /\ errors' = errors
                           ELSE errors' = errors + 1 /\ success_count' = success_count
    /\ alert_idx' = alert_idx + 1
    /\ UNCHANGED <<nfiles, dry_run, folder, file_idx, cur_file, alerts, folders,
                   total_success, total_failed, warnings, visited, removeVars>>

\* import_alert line 254 and main, lines 323-325: the counts of the file are
\* added to the totals.
ImportReturn ==
    /\ pc = "rules" /\ alert_idx > Len(alerts)
    /\ total_success' = total_success + success_count
    /\ total_failed' = total_failed + (Len(alerts) - success_count)
    /\ requests' = <<>>
    /\ outcome' = "returned"
    /\ pc' = "next"
    /\ UNCHANGED <<exit_code, nfiles, dry_run, folder, file_idx, cur_file, alerts, folders,
                   alert_idx, success_count, errors, warnings, visited, removeVars>>

\* main, line 294: the loop body is over and the for statement goes on; what
\* the body held of its file is dropped.
MainContinue ==
    /\ pc = "next"
    /\ pc' = "loop"
    /\ cur_file' = NoFile /\ alerts' = <<>> /\ folders' = NoFolders
    /\ alert_idx' = 0 /\ success_count' = 0
    /\ requests' = <<>> /\ warnings' = 0 /\ outcome' = ""
    /\ UNCHANGED <<exit_code, nfiles, dry_run, folder, file_idx, total_success,
                   total_failed, errors, visited, removeVars>>

\* main, line 330: sys.exit(0 if total_failed == 0 else 1).
ExitStatus(failed) == IF failed = 0 THEN 0 ELSE 1

\* main, lines 327-330: the summary and the exit code.
MainExit ==
    /\ pc = "loop" /\ file_idx = nfiles
    /\ exit_code' = ExitStatus(total_failed)
    /\ pc' = "done"
    /\ UNCHANGED <<requests, outcome, importVars, removeVars>>

ImportNext ==
    \/ ImportLoadConfig
    \/ MainMissing
    \/ MainDryRun
    \/ ImportOpen
    \/ ImportRule
    \/ ImportReturn
    \/ MainContinue
    \/ MainExit

ImportSpec == ImportInit /\ [][ImportNext]_vars

----------------------------------------------------------------------------
(* Properties of add-alert.py *)

IsWrite(req) == req.method \in {"POST", "PUT"}
IsExport(f) == f.exists /\ f.json_ok /\ f.type = "dict" /\ f.apiVersion /\ f.hasGroups
HasRequired(rule) == rule.title /\ rule.condition /\ rule.data

\* load_config() returned: the tool has its configuration and runs.
Configured == pc # "config" /\ outcome # "config_error"

RECURSIVE RuleCount(_)
RuleCount(gs) == IF gs = <<>> THEN 0 ELSE Len(Head(gs).rules) + RuleCount(Tail(gs))

\* C1: in a non-dry-run import, a collected rule that has title, condition and
\* data gets exactly one PUT and no POST when it has a uid and the GET of that
\* uid answered 200, and exactly one POST and no PUT in every other case.
C1_UpdateElseCreate ==
    (pc = "rules" /\ alert_idx > 1 /\ HasRequired(alerts[alert_idx - 1])) =>
        LET a == alerts[alert_idx - 1]
            mine == {k \in 1..Len(requests) : requests[k].idx = alert_idx - 1}
            puts == {k \in mine : requests[k].method = "PUT"}
            posts == {k \in mine : requests[k].method = "POST"}
            got200 == /\ a.uid # ""
                      /\ \E k \in mine : /\ requests[k].method = "GET"
                                         /\ requests[k].uid = a.uid
                                         /\ requests[k].status = 200
        IN  /\ mine = 1..Len(requests)
            /\ IF got200
               THEN /\ Cardinality(puts) = 1 /\ posts = {}
                    /\ \A k \in puts : requests[k].uid = a.uid /\ requests[k].body = a
               ELSE /\ Cardinality(posts) = 1 /\ puts = {}
                    /\ \A k \in posts : requests[k].body = a

\* C2: with --dry-run no step of the import tool issues a network request,
\* whatever the file and whether or not --folder is given.
C2_DryRunNoNetwork == dry_run => requests = <<>>

\* Dry-run took an export file that names a folder and holds a rule with a
\* uid, for which an import would ask the server.
C2_Witness ==
    /\ dry_run /\ pc = "next" /\ IsExport(cur_file) /\ folder = ""
    /\ \E g \in 1..Len(cur_file.groups) :
        /\ cur_file.groups[g].folder # ""
        /\ \E i \in 1..Len(cur_file.groups[g].rules) : cur_file.groups[g].rules[i].uid # ""

\* The alerts import_alert would validate for the current file, for a given
\* answer to the folder lookup.
ImportWouldValidate(fr) == ApplyOverride(CollectAlerts(cur_file, folder, fr), folder)

\* C3: dry-run reports a file as invalid exactly when the import would reject
\* one of its rules for a missing title, condition or data.
C3_DryRunClassifiesLikeImport ==
    (dry_run /\ pc = "next" /\ cur_file.exists /\ cur_file.json_ok) =>
        ((outcome = "dry_invalid") <=>
            \E fr \in FolderResponses :
                \E i \in 1..Len(ImportWouldValidate(fr)) : ~HasRequired(ImportWouldValidate(fr)[i]))

\* C4: with a --folder override, every rule body sent by POST or PUT carries
\* folderUID equal to the override, and no group of an export is skipped: no
\* warning is printed and every rule of every group is collected.
C4_OverrideOnEveryRule ==
    (~dry_run /\ folder # "") =>
        /\ \A k \in 1..Len(requests) : IsWrite(requests[k]) => requests[k].body.folderUID = folder
        /\ \A k \in 1..Len(requests) : requests[k].target # "folders"
        /\ (IsExport(cur_file) /\ pc \in {"rules", "next"}) =>
                warnings = 0 /\ Len(alerts) = RuleCount(cur_file.groups)

\* With an override, a rule that came with its own folderUID was sent, from an
\* export that also has a group naming a folder the server lacks.
C4_Witness ==
    /\ ~dry_run /\ folder = "fNew" /\ pc = "rules" /\ IsExport(cur_file)
    /\ \E g \in 1..Len(cur_file.groups) : cur_file.groups[g].folder = "Gone"
    /\ \E g \in 1..Len(cur_file.groups) :
        \E i \in 1..Len(cur_file.groups[g].rules) : cur_file.groups[g].rules[i].folderUID = "fOld"
    /\ \E k \in 1..Len(requests) : IsWrite(requests[k]) /\ requests[k].body.uid = "u1"

\* The rules of a group as the claim describes them.
C5_Tagged(g) ==
    [i \in 1..Len(g.rules) |->
        [g.rules[i] EXCEPT !.ruleGroup = IF g.hasName THEN g.name ELSE "default",
                           !.folderUID = IF g.folder # "" THEN folders.map[g.folder] ELSE @]]
C5_Kept(g) == g.folder = "" \/ g.folder \in DOMAIN folders.map

\* C5: for an export and no override, the rules extracted are, in group order,
\* the rules of the groups that name no folder or a folder title the lookup
\* returned; every other group adds no rule and one warning; every rule carries
\* its group's name ("default" when absent) and, when its group names a folder,
\* the folder's uid.
C5_ExtractedRules ==
    (~dry_run /\ folder = "" /\ IsExport(cur_file) /\ pc \in {"rules", "next"}) =>
        /\ alerts = Concat([k \in 1..Len(cur_file.groups) |->
                              IF C5_Kept(cur_file.groups[k]) THEN C5_Tagged(cur_file.groups[k])
                              ELSE <<>>])
        /\ warnings = Cardinality({k \in 1..Len(cur_file.groups) : ~C5_Kept(cur_file.groups[k])})

\* C9: the non-dry-run import, once it has its configuration, takes every file
\* in order and every collected rule of each file; a missing file, malformed
\* JSON, an export with no rule, a rule lacking a required key, an HTTP error
\* answer to create/update and a transport error of create/update each add one
\* failure; the exit code is 0 exactly when no failure was recorded, and 1
\* otherwise.
C9_FailuresAndExitCode ==
    (~dry_run /\ Configured) =>
        /\ visited = [i \in 1..file_idx |-> i]
        /\ (pc = "next" /\ outcome = "returned") => alert_idx = Len(alerts) + 1
        /\ pc = "rules" => errors - total_failed = (alert_idx - 1) - success_count
        /\ (pc = "rules" /\ outcome \in {"invalid", "http_error", "transport_error"}) =>
                errors - total_failed >= 1
        /\ (pc = "next" /\ outcome \in {"missing", "badjson", "no_rules"}) => total_failed >= 1
        /\ pc \in {"next", "loop", "done"} => total_failed = errors
        /\ pc = "done" => /\ file_idx = nfiles
                          /\ exit_code \in {0, 1}
                          /\ (exit_code = 0 <=> errors = 0)

----------------------------------------------------------------------------
(* remove-alert.py *)

\* Strings the user may type at the prompt, as sequences of characters.
Answers ==
    {<<>>, <<"y">>, <<"Y">>, <<"n">>, <<"N">>, <<"y", "e", "s">>, <<"Y", "E", "S">>,
     <<"Y", "e", "s">>, <<"n", "o">>, <<"y", "e">>, <<"y", "y">>, <<" ", "y">>, <<"o", "k">>}

\* str.lower(), character by character.
LowerChar(c) ==
    CASE c = "Y" -> "y" [] c = "E" -> "e" [] c = "S" -> "s" [] c = "N" -> "n"
      [] c = "O" -> "o" [] c = "K" -> "k" [] OTHER -> c
Lower(str) == [i \in 1..Len(str) |-> LowerChar(str[i])]

\* Affirmative with the bug of taking everything but a "no" for a yes.
AffirmativeUnlessNo(str) == Lower(str) \notin {<<"n">>, <<"n", "o">>}

\* main, line 250: confirm.lower() in ("y", "yes").
Affirmative(str) == Lower(str) \in {<<"y">>, <<"y", "e", "s">>}

\* The identifiers and titles of the model.
Uids == {"A", "B"}
Titles == {"A", "T"}

\* The rule sets a server may hold: distinct uids, one rule at most without
\* uid, titles that may repeat and may equal the uid of another rule.
Servers ==
    {sv \in SeqUpTo({Alert(u, t) : u \in Uids \cup {""}, t \in Titles}, MaxServerRules) :
        \A i, j \in 1..Len(sv) : sv[i].uid = sv[j].uid => i = j}

\* How a request ends: answered by the server, answered with a server error,
\* or not answered at all.
Nets == {"ok", "http_error", "transport_error"}
\* How a GET ends: also answered with status 200 and a body that is null
\* ("null"), that is true and not what the tool expects ("junk"), or that does
\* not parse ("nojson").
GetNets == Nets \cup {"null", "junk"}
ListNets == Nets \cup {"null", "junk", "nojson"}

\* The server's answer to GET /api/v1/provisioning/alert-rules/{uid}; a body
\* that does not parse gives None, as null does.
ServerGet(sv, uid, net) ==
    IF net = "transport_error" THEN Resp(0, NoAlert)
    ELSE IF net = "http_error" THEN Resp(500, NoAlert)
    ELSE IF net = "null" THEN Resp(200, NoAlert)
    ELSE IF net = "junk" THEN Resp(200, JunkAlert)
    ELSE IF \E i \in 1..Len(sv) : sv[i].uid = uid
         THEN Resp(200, sv[CHOOSE i \in 1..Len(sv) : sv[i].uid = uid])
         ELSE Resp(404, NoAlert)

\* The server's answer to GET /api/v1/provisioning/alert-rules: whether the
\* body parses, whether it can be iterated (null cannot), and its elements; a
\* "junk" answer is the list of the rules followed by an element that is no
\* mapping.
ListAnswer(st, js, it, as) == [status |-> st, json |-> js, iterable |-> it, alerts |-> as]
ServerList(sv, net) ==
    IF net = "transport_error" THEN ListAnswer(0, TRUE, FALSE, <<>>)
    ELSE IF net = "http_error" THEN ListAnswer(500, TRUE, FALSE, <<>>)
    ELSE IF net = "nojson" THEN ListAnswer(200, FALSE, FALSE, <<>>)
    ELSE IF net = "null" THEN ListAnswer(200, TRUE, FALSE, <<>>)
    ELSE IF net = "junk" THEN ListAnswer(200, TRUE, TRUE, sv \o <<JunkAlert>>)
    ELSE ListAnswer(200, TRUE, TRUE, sv)

\* What response.json() gave for a listing, as the request log keeps it: a
\* list, null, or nothing when the body does not parse.
ListBody(list) ==
    [kind |-> IF ~list.json THEN "nojson" ELSE IF ~list.iterable THEN "none" ELSE "list",
     uid |-> "", title |-> ""]

\* list_alerts raises: HTTPError of raise_for_status, or another
\* RequestException (no answer, a body that does not parse).
ListRaises(list) == Raises(list) \/ ~list.json

\* The server's answer to DELETE /api/v1/provisioning/alert-rules/{uid}.
ServerDelete(sv, uid, net) ==
    IF net = "transport_error" THEN Resp(0, NoAlert)
    ELSE IF net = "http_error" THEN Resp(500, NoAlert)
    ELSE IF \E i \in 1..Len(sv) : sv[i].uid = uid THEN Resp(204, NoAlert)
    ELSE Resp(404, NoAlert)

\* get_alert_by_uid: the response body when the status is 200, else None.
get_alert_by_uid(resp) == IF resp.status = 200 THEN resp.body ELSE NoAlert

\* find_alert_by_name raises: list_alerts raised, line 96 cannot iterate the
\* answer (TypeError), or line 97 reaches an element that is no mapping before
\* an alert of the title (AttributeError).
FindRaises(list, name) ==
    \/ ListRaises(list)
    \/ ~list.iterable
    \/ \E i \in 1..Len(list.alerts) :
            /\ list.alerts[i].kind # "dict"
            /\ \A j \in 1..(i - 1) : list.alerts[j].title # name

\* main, line 236, raises AttributeError: alert_info.get on a value that is
\* true and no mapping.
InfoGetRaises(info) == info.kind = "other"

\* find_alert_by_name with the bug of returning the first alert listed.
find_alert_by_name_any(as, name) == IF as # <<>> THEN as[1] ELSE NoAlert

\* find_alert_by_name, lines 96-100, when it returns: the first alert whose
\* title is name.
find_alert_by_name(as, name) ==
    IF \E i \in 1..Len(as) : as[i].title = name
    THEN as[CHOOSE i \in 1..Len(as) :
                as[i].title = name /\ \A j \in 1..(i - 1) : as[j].title # name]
    ELSE NoAlert

\* Resolve with the bug of trying a positional argument as a title first.
ResolveTitleFirst(uid, name, identifier, sv, net1, net2) ==
    LET get(u) == ServerGet(sv, u, net1)
        getReq(u) == Req("GET", "rule", u, 0, get(u).status, get(u).body)
        list == ServerList(sv, net2)
        listReq == Req("GET", "rules", "", 0, list.status, ListBody(list))
        target == IF Truthy(name) THEN name ELSE identifier
        listed == find_alert_by_name(list.alerts, target)
        found(reqs, u, info, as) ==
            [reqs |-> reqs, uid |-> u, info |-> info, alerts |-> as,
             end |-> IF InfoGetRaises(info) THEN "crash" ELSE "show"]
        byName(reqs) ==
            IF FindRaises(list, target)
            THEN [reqs |-> reqs \o <<listReq>>, uid |-> "", info |-> NoAlert,
                  alerts |-> list.alerts, end |-> "crash"]
            ELSE IF listed = NoAlert
            THEN [reqs |-> reqs \o <<listReq>>, uid |-> "", info |-> NoAlert,
                  alerts |-> list.alerts, end |-> "exit"]
            ELSE found(reqs \o <<listReq>>, listed.uid, listed, list.alerts)
    IN  IF Truthy(uid)
        THEN LET info == get_alert_by_uid(get(uid))
             IN  IF info = NoAlert
                 THEN [reqs |-> <<getReq(uid)>>, uid |-> uid, info |-> info,
                       alerts |-> <<>>, end |-> "exit"]
                 ELSE found(<<getReq(uid)>>, uid, info, <<>>)
        ELSE IF Truthy(name) THEN byName(<<>>)
        ELSE IF Truthy(identifier)
        THEN IF ~FindRaises(list, target) /\ listed # NoAlert
             THEN byName(<<>>)
             ELSE LET info == get_alert_by_uid(get(identifier))
                  IN  IF info = NoAlert
                      THEN [reqs |-> <<listReq, getReq(identifier)>>, uid |-> "",
                            info |-> info, alerts |-> list.alerts, end |-> "exit"]
                      ELSE found(<<listReq, getReq(identifier)>>, identifier, info,
                                 list.alerts)
        ELSE [reqs |-> <<>>, uid |-> "", info |-> NoAlert, alerts |-> <<>>, end |-> "usage"]

\* main, lines 203-241: the requests made to find the target (a GET by uid is
\* logged with the body it returned), the target found, the alerts listed, and
\* whether the tool goes on ("show") or ends ("exit", "usage", "crash": an
\* exception of find_alert_by_name or of line 236 that nothing catches).
Resolve(uid, name, identifier, sv, net1, net2) ==
    LET get(u) == ServerGet(sv, u, net1)
        getReq(u) == Req("GET", "rule", u, 0, get(u).status, get(u).body)
        list == ServerList(sv, net2)
        listReq == Req("GET", "rules", "", 0, list.status, ListBody(list))
        target == IF Truthy(name) THEN name ELSE identifier
        listed == find_alert_by_name(list.alerts, target)
        found(reqs, u, info, as) ==
            [reqs |-> reqs, uid |-> u, info |-> info, alerts |-> as,
             end |-> IF InfoGetRaises(info) THEN "crash" ELSE "show"]
        byName(reqs) ==
            IF FindRaises(list, target)
            THEN [reqs |-> reqs \o <<listReq>>, uid |-> "", info |-> NoAlert,
                  alerts |-> list.alerts, end |-> "crash"]
            ELSE IF listed = NoAlert
            THEN [reqs |-> reqs \o <<listReq>>, uid |-> "", info |-> NoAlert,
                  alerts |-> list.alerts, end |-> "exit"]
            ELSE found(reqs \o <<listReq>>, listed.uid, listed, list.alerts)
    IN  IF Truthy(uid)
        THEN LET info == get_alert_by_uid(get(uid))
             IN  IF info = NoAlert
                 THEN [reqs |-> <<getReq(uid)>>, uid |-> uid, info |-> info,
                       alerts |-> <<>>, end |-> "exit"]
                 ELSE found(<<getReq(uid)>>, uid, info, <<>>)
        ELSE IF Truthy(name) THEN byName(<<>>)
        ELSE IF Truthy(identifier)
        THEN LET info == get_alert_by_uid(get(identifier))
             IN  IF info # NoAlert
                 THEN found(<<getReq(identifier)>>, identifier, info, <<>>)
                 ELSE byName(<<getReq(identifier)>>)
        ELSE [reqs |-> <<>>, uid |-> "", info |-> NoAlert, alerts |-> <<>>, end |-> "usage"]

RemoveInit ==
    /\ pc = "config" /\ exit_code = -1 /\ requests = <<>> /\ outcome = ""
    /\ r_uid \in {"", "A", "C"}
    /\ r_name \in {"", "A", "T"}
    /\ r_identifier \in {"", "A", "T", "Z"}
    /\ r_dry_run \in BOOLEAN /\ r_list \in BOOLEAN /\ r_force \in BOOLEAN
    /\ server \in Servers
    /\ uid_to_delete = "" /\ alert_info = NoAlert
    /\ prompted = FALSE /\ answer = <<>>
    /\ nfiles = 0 /\ dry_run = FALSE /\ folder = ""
    /\ file_idx = 0 /\ cur_file = NoFile
    /\ alerts = <<>> /\ folders = NoFolders /\ alert_idx = 0 /\ success_count = 0
    /\ total_success = 0 /\ total_failed = 0
    /\ errors = 0 /\ warnings = 0 /\ visited = <<>>

removeArgs == <<r_uid, r_name, r_identifier, r_dry_run, r_list, r_force>>

\* main, line 178: load_config() returns, or ends the process with status 1.
RemoveLoadConfig ==
    /\ pc = "config"
    /\ \E env \in Envs :
        IF load_config(env)
        THEN pc' = "start" /\ outcome' = "" /\ UNCHANGED exit_code
        ELSE pc' = "done" /\ outcome' = "config_error" /\ exit_code' = 1
    /\ UNCHANGED <<requests, removeVars, importVars>>

\* main, lines 184-201: list mode.  Only the HTTPError of list_alerts is
\* caught; an answer that is falsy is reported as empty, and line 194 raises
\* AttributeError on an element that is no mapping.
ListMode ==
    /\ pc = "start" /\ r_list
    /\ \E net \in ListNets :
        LET list == ServerList(server, net)
            printed == ~ListRaises(list) /\ \A i \in 1..Len(list.alerts) : list.alerts[i].kind = "dict"
        IN
        /\ requests' = <<Req("GET", "rules", "", 0, list.status, ListBody(list))>>
        /\ alerts' = list.alerts
        /\ outcome' = IF list.status >= 400 THEN "list_failed"
                      ELSE IF ~printed THEN "crash"
                      ELSE IF list.alerts = <<>> THEN "none_found" ELSE "listed"
        /\ exit_code' = IF printed THEN 0 ELSE 1
    /\ pc' = "done"
    /\ UNCHANGED <<removeArgs, server, uid_to_delete, alert_info, prompted, answer, nfiles,
                   dry_run, folder, file_idx, cur_file, folders, alert_idx, success_count,
                   total_success, total_failed, errors, warnings, visited>>

\* main, lines 203-241: the target is looked for and, when found, shown.
FindTarget ==
    /\ pc = "start" /\ ~r_list
    /\ \E net1 \in GetNets, net2 \in ListNets :
        LET r == Resolve(r_uid, r_name, r_identifier, server, net1, net2) IN
        /\ requests' = r.reqs
        /\ alerts' = r.alerts
        /\ uid_to_delete' = r.uid
        /\ alert_info' = r.info
        /\ IF r.end = "show"
           THEN pc' = "found" /\ outcome' = "shown" /\ UNCHANGED exit_code
           ELSE pc' = "done" /\ outcome' = r.end /\ exit_code' = 1
    /\ UNCHANGED <<removeArgs, server, prompted, answer, nfiles, dry_run, folder, file_idx,
                   cur_file, folders, alert_idx, success_count, total_success,
                   total_failed, errors, warnings, visited>>

\* main, lines 243-245: dry-run ends here.
DryRunStop ==
    /\ pc = "found" /\ r_dry_run
    /\ pc' = "done" /\ exit_code' = 0
    /\ outcome' = "dry_run"
    /\ UNCHANGED <<requests, removeArgs, server, uid_to_delete, alert_info, prompted, answer,
                   importVars>>

\* What input() does: it returns the line typed, or raises EOFError when standard
\* input is at its end.
Inputs == [eof : {FALSE}, line : Answers] \cup {[eof |-> TRUE, line |-> <<>>]}

\* Confirm with the bug of prompting even with --force.
ConfirmAlways ==
    /\ pc = "found" /\ ~r_dry_run
    /\ \E inp \in Inputs :
        /\ prompted' = TRUE /\ answer' = inp.line
        /\ IF inp.eof
           THEN pc' = "done" /\ outcome' = "eof" /\ exit_code' = 1
           ELSE IF Affirmative(inp.line)
           THEN pc' = "delete" /\ outcome' = "confirmed" /\ UNCHANGED exit_code
           ELSE pc' = "done" /\ outcome' = "aborted" /\ exit_code' = 0
    /\ UNCHANGED <<requests, removeArgs, server, uid_to_delete, alert_info, importVars>>

\* main, lines 248-252: the prompt, unless --force.  The EOFError of input()
\* is not caught.
Confirm ==
    /\ pc = "found" /\ ~r_dry_run
    /\ IF r_force
       THEN /\ pc' = "delete" /\ outcome' = "forced"
            /\ UNCHANGED <<exit_code, prompted, answer>>
       ELSE \E inp \in Inputs :
            /\ prompted' = TRUE /\ answer' = inp.line
            /\ IF inp.eof
               THEN pc' = "done" /\ outcome' = "eof" /\ exit_code' = 1
               ELSE IF Affirmative(inp.line)
               THEN pc' = "delete" /\ outcome' = "confirmed" /\ UNCHANGED exit_code
               ELSE pc' = "done" /\ outcome' = "aborted" /\ exit_code' = 0
    /\ UNCHANGED <<requests, removeArgs, server, uid_to_delete, alert_info, importVars>>

\* main, lines 254-263, and delete_alert.
Delete ==
    /\ pc = "delete"
    /\ \E net \in Nets :
        LET resp == ServerDelete(server, uid_to_delete, net) IN
        /\ requests' = Append(requests, Req("DELETE", "rule", uid_to_delete, 0, resp.status, NoAlert))
        /\ IF Raises(resp)
           THEN outcome' = "delete_failed" /\ exit_code' = 1 /\ UNCHANGED server
           ELSE /\ outcome' = "deleted" /\ exit_code' = 0
                /\ server' = SelectSeq(server, LAMBDA a : a.uid # uid_to_delete)
    /\ pc' = "done"
    /\ UNCHANGED <<removeArgs, uid_to_delete, alert_info, prompted, answer, importVars>>

RemoveNext ==
    \/ RemoveLoadConfig
    \/ ListMode
    \/ FindTarget
    \/ DryRunStop
    \/ Confirm
    \/ Delete

RemoveSpec == RemoveInit /\ [][RemoveNext]_vars

----------------------------------------------------------------------------
(* Properties of remove-alert.py *)

Deletes == {k \in 1..Len(requests) : requests[k].method = "DELETE"}
Lookups == SelectSeq(requests, LAMBDA q : q.method = "GET")
\* The answer to a GET by uid held a rule.
YieldedRule(q) == q.status = 200 /\ q.body.kind = "dict"
MissedByUid(u) ==
    \E k \in 1..Len(requests) :
        /\ requests[k].method = "GET" /\ requests[k].target = "rule"
        /\ requests[k].uid = u /\ ~YieldedRule(requests[k])
Listed == \E k \in 1..Len(requests) : requests[k].target = "rules" /\ requests[k].status = 200
NoTitle(n) == \A i \in 1..Len(alerts) : alerts[i].title # n
Resolved == alert_info.kind = "dict"

\* The cases of C6 in which the target cannot be resolved.
C6_UidMiss == r_uid # "" /\ MissedByUid(r_uid)
C6_NameMiss == r_uid = "" /\ r_name # "" /\ Listed /\ NoTitle(r_name)
C6_PositionalMiss ==
    /\ r_uid = "" /\ r_name = "" /\ r_identifier # ""
    /\ MissedByUid(r_identifier) /\ Listed /\ NoTitle(r_identifier)
C6_NothingGiven == r_uid = "" /\ r_name = "" /\ r_identifier = ""
C6_Unresolved == C6_UidMiss \/ C6_NameMiss \/ C6_PositionalMiss \/ C6_NothingGiven

\* C6 as stated: when the target cannot be resolved (--uid whose GET returns no
\* rule, --name that no listed rule has as title, a positional argument that
\* is neither, or none of the three given) the tool exits nonzero and issues
\* no DELETE.
C6_UnresolvedExitsNonzero ==
    (pc = "done" /\ C6_Unresolved) => (exit_code # 0 /\ Deletes = {})

\* C6, amended: the same for a run without --list.
C6_UnresolvedExitsNonzeroUnlessList ==
    (pc = "done" /\ ~r_list /\ C6_Unresolved) => (exit_code # 0 /\ Deletes = {})

\* A positional argument matched neither a uid nor a title of a server that
\* holds rules, with --force set.
C6_Witness ==
    /\ pc = "done" /\ ~r_list /\ r_force /\ ~r_dry_run /\ C6_PositionalMiss
    /\ Len(alerts) >= 1 /\ exit_code = 1

\* C7 as stated: with --force and a resolved target there is no prompt and
\* exactly one DELETE.
C7_ForceDeletesOnce ==
    (pc = "done" /\ r_force /\ Resolved) => (~prompted /\ Cardinality(Deletes) = 1)

\* C7, amended: the same for a run without --dry-run.
C7_ForceDeletesOnceUnlessDryRun ==
    (pc = "done" /\ r_force /\ ~r_dry_run /\ Resolved) =>
        (~prompted /\ Cardinality(Deletes) = 1)

\* A forced removal went through.
C7_Witness ==
    /\ pc = "done" /\ r_force /\ ~r_dry_run /\ Resolved
    /\ outcome = "deleted" /\ Cardinality(Deletes) = 1

\* The answers that are "y" or "yes" up to case.
C8_Yes ==
    {<<a>> : a \in {"y", "Y"}}
    \cup {<<a, b, c>> : a \in {"y", "Y"}, b \in {"e", "E"}, c \in {"s", "S"}}

\* What C8 says of DELETE, of dry-run and of the prompt (an end of input at
\* the prompt is no answer).
C8_DeleteGuarded ==
    /\ Deletes # {} =>
        /\ ~r_list /\ Resolved /\ ~r_dry_run
        /\ r_force \/ (prompted /\ answer \in C8_Yes)
    /\ Cardinality(Deletes) <= 1
    /\ (pc = "done" /\ ~r_list /\ r_dry_run /\ Resolved) => (exit_code = 0 /\ Deletes = {})
    /\ (prompted /\ outcome # "eof" /\ answer \notin C8_Yes) =>
            (pc = "done" /\ exit_code = 0 /\ Deletes = {})

\* C8 as stated: a DELETE is issued only without --list, with a resolved
\* target, without --dry-run and with --force or an affirmative answer; at most
\* one DELETE is issued; list mode and dry-run exit 0 without deleting; any
\* other answer aborts with exit 0 without deleting.
C8_DeleteOnlyWhenConfirmed ==
    /\ C8_DeleteGuarded
    /\ (pc = "done" /\ r_list /\ Configured) => (exit_code = 0 /\ Deletes = {})

\* The listing request was answered with a status that is no error and a body
\* that parses and holds nothing but rule objects (null and an empty list hold
\* none).
C8_ListingPrinted ==
    /\ Len(requests) = 1 /\ requests[1].status \in 1..399 /\ requests[1].body.kind # "nojson"
    /\ \A i \in 1..Len(alerts) : alerts[i].kind = "dict"

\* C8, amended: list mode deletes nothing and exits 0 exactly when the listing
\* is answered without an error status and with rule objects only, and 1
\* otherwise.
C8_DeleteOnlyWhenConfirmedListMayFail ==
    /\ C8_DeleteGuarded
    /\ (pc = "done" /\ r_list) => Deletes = {}
    /\ (pc = "done" /\ r_list /\ Configured) =>
            /\ Len(requests) = 1
            /\ exit_code = (IF C8_ListingPrinted THEN 0 ELSE 1)

\* A removal confirmed with "YES" at the prompt went through.
C8_Witness ==
    /\ pc = "done" /\ ~r_force /\ prompted /\ answer = <<"Y", "E", "S">>
    /\ outcome = "deleted" /\ Cardinality(Deletes) = 1

\* alert_info is the first listed alert of title n.
C10_FirstTitled(n) ==
    \E i \in 1..Len(alerts) :
        /\ alerts[i] = alert_info /\ alerts[i].title = n
        /\ \A j \in 1..(i - 1) : alerts[j].title # n

\* C10: once the tool has its configuration, the target is looked for by
\* --uid, else by --name, else by the positional argument; --uid makes one GET
\* by uid and nothing else; --name without --uid makes one listing and takes
\* the first rule of that title; a positional argument is first asked for as a
\* uid, and the listing is made only when that GET returned no rule; the DELETE
\* goes to the uid of the rule found this way.
C10_ResolutionOrder ==
    (pc \in {"found", "delete", "done"} /\ ~r_list /\ Configured) =>
        /\ r_uid # "" =>
            /\ Len(Lookups) = 1
            /\ Lookups[1].target = "rule" /\ Lookups[1].uid = r_uid
            /\ Resolved => (uid_to_delete = r_uid /\ alert_info = Lookups[1].body)
        /\ (r_uid = "" /\ r_name # "") =>
            /\ Len(Lookups) = 1
            /\ Lookups[1].target = "rules"
            /\ Resolved => (C10_FirstTitled(r_name) /\ uid_to_delete = alert_info.uid)
        /\ (r_uid = "" /\ r_name = "" /\ r_identifier # "") =>
            /\ Len(Lookups) >= 1
            /\ Lookups[1].target = "rule" /\ Lookups[1].uid = r_identifier
            /\ YieldedRule(Lookups[1]) =>
                    /\ Len(Lookups) = 1
                    /\ Resolved /\ uid_to_delete = r_identifier /\ alert_info = Lookups[1].body
            /\ Lookups[1].body = NoAlert => Len(Lookups) = 2
            /\ Len(Lookups) > 1 =>
                    /\ Len(Lookups) = 2 /\ ~YieldedRule(Lookups[1])
                    /\ Lookups[2].target = "rules"
                    /\ Resolved => (C10_FirstTitled(r_identifier) /\ uid_to_delete = alert_info.uid)
        /\ \A k \in Deletes :
            /\ k = Len(requests)
            /\ Resolved /\ requests[k].uid = uid_to_delete

\* A positional "A" that is the uid of one rule and the title of another: the
\* rule of uid "A" was deleted, the rule titled "A" is still there.
C10_Witness ==
    /\ pc = "done" /\ ~r_list /\ outcome = "deleted"
    /\ r_uid = "" /\ r_name = "" /\ r_identifier = "A"
    /\ Len(requests) = 2 /\ requests[1].status = 200
    /\ requests[2].method = "DELETE" /\ requests[2].uid = "A"
    /\ \E i \in 1..Len(server) : server[i].title = "A" /\ server[i].uid # "A"

====
